---- MODULE Spec2Model ----
(***************************************************************************)
(* Model of dynamodbSaver.py: the DynamoDB checkpoint saver.               *)
(*                                                                         *)
(* Python strings are sequences of one-character strings, so that join,    *)
(* split, begins_with and the lexicographic order are computed the way     *)
(* Python and DynamoDB compute them.  The table is a function from the     *)
(* PK string to the stored item.                                           *)
(***************************************************************************)
EXTENDS Integers, Sequences, FiniteSets, TLC

(***************************************************************************)
(* Strings                                                                 *)
(***************************************************************************)

\* The characters the model uses, in code point order.
CharOrder ==
  << "$", "*", "-", "0", "1", "2", "3", "4", "5", "6", "7", "8", "9", "_",
     "a", "b", "c", "d", "e", "f", "g", "h", "i", "j", "k", "l", "m", "n",
     "o", "p", "q", "r", "s", "t", "u", "v", "w", "x", "y", "z" >>

Ord(ch) == CHOOSE i \in 1..Len(CharOrder) : CharOrder[i] = ch

Min2(a, b) == IF a <= b THEN a ELSE b

\* Python's str < str: the first differing character decides, a proper
\* prefix is smaller.
StrLess(a, b) ==
  \/ /\ Len(a) < Len(b)
     /\ \A i \in 1..Len(a) : a[i] = b[i]
  \/ \E i \in 1..Min2(Len(a), Len(b)) :
       /\ \A j \in 1..(i - 1) : a[j] = b[j]
       /\ Ord(a[i]) < Ord(b[i])

\* DynamoDB's begins_with(attribute, prefix): a literal prefix test.
BeginsWith(s, prefix) ==
  /\ Len(prefix) <= Len(s)
  /\ \A i \in 1..Len(prefix) : s[i] = prefix[i]

RECURSIVE Join(_, _)
\* sep.join(parts)
Join(sep, parts) ==
  IF Len(parts) = 0 THEN << >>
  ELSE IF Len(parts) = 1 THEN parts[1]
  ELSE parts[1] \o sep \o Join(sep, Tail(parts))

\* split that leaves the empty fields out.
SplitNoEmpty(s, sep) ==
  LET cuts == << 0 >> \o SelectSeq([i \in 1..Len(s) |-> i], LAMBDA i : s[i] = sep)
                     \o << Len(s) + 1 >>
      all == [i \in 1..(Len(cuts) - 1) |-> SubSeq(s, cuts[i] + 1, cuts[i + 1] - 1)]
  IN  SelectSeq(all, LAMBDA f : f # << >>)

RECURSIVE Split(_, _)
\* s.split(sep) for a one-character sep: always at least one field, empty
\* fields are kept.
Split(s, sep) ==
  IF \A i \in 1..Len(s) : s[i] # sep THEN << s >>
  ELSE LET i == CHOOSE k \in 1..Len(s) :
                   /\ s[k] = sep
                   /\ \A j \in 1..(k - 1) : s[j] # sep
       IN  << SubSeq(s, 1, i - 1) >> \o Split(SubSeq(s, i + 1, Len(s)), sep)

Digit(d) == CharOrder[Ord("0") + d]

RECURSIVE NatToStr(_)
NatToStr(n) ==
  IF n < 10 THEN << Digit(n) >>
  ELSE NatToStr(n \div 10) \o << Digit(n % 10) >>

\* str(idx) for a Python int
IntToStr(i) == IF i < 0 THEN << "-" >> \o NatToStr(0 - i) ELSE NatToStr(i)

\* Python values whose type the code depends on carry their type.
PyStr(s) == [ty |-> "str", v |-> s]
PyInt(i) == [ty |-> "int", v |-> i]
PyDict(d) == [ty |-> "dict", v |-> d]
PyNone == [ty |-> "NoneType", v |-> 0]
\* Python's == between two such values: values of different types differ.
PyEq(a, b) == a.ty = b.ty /\ a.v = b.v

(***************************************************************************)
(* Key codec                                                               *)
(***************************************************************************)

DYNAMODB_KEY_SEPARATOR == << "$" >>

CheckpointLit == << "c", "h", "e", "c", "k", "p", "o", "i", "n", "t" >>
WritesLit == << "w", "r", "i", "t", "e", "s" >>
Star == << "*" >>

_make_dynamodb_checkpoint_key(thread_id, checkpoint_ns, checkpoint_id) ==
  Join(DYNAMODB_KEY_SEPARATOR,
       << CheckpointLit, thread_id, checkpoint_ns, checkpoint_id >>)

\* idx is PyNone or a PyInt
_make_dynamodb_checkpoint_writes_key(thread_id, checkpoint_ns, checkpoint_id, task_id, idx) ==
  IF idx.ty = "NoneType"
  THEN Join(DYNAMODB_KEY_SEPARATOR,
            << WritesLit, thread_id, checkpoint_ns, checkpoint_id, task_id >>)
  ELSE Join(DYNAMODB_KEY_SEPARATOR,
            << WritesLit, thread_id, checkpoint_ns, checkpoint_id, task_id,
               IntToStr(idx.v) >>)

\* The argument is a Python value: a dict has no split (AttributeError);
\* the unpacking needs exactly four fields (ValueError).
_parse_dynamodb_checkpoint_key(dynamodb_key) ==
  IF dynamodb_key.ty # "str" THEN [exc |-> "AttributeError"]
  ELSE LET f == Split(dynamodb_key.v, DYNAMODB_KEY_SEPARATOR[1])
       IN  IF Len(f) # 4 THEN [exc |-> "ValueError"]
           ELSE IF f[1] # CheckpointLit THEN [exc |-> "ValueError"]
           ELSE [exc |-> "none",
                 thread_id |-> f[2],
                 checkpoint_ns |-> f[3],
                 checkpoint_id |-> f[4]]

\* idx comes back as the field of the split: a str.
_parse_dynamodb_checkpoint_writes_key(dynamodb_key) ==
  IF dynamodb_key.ty # "str" THEN [exc |-> "AttributeError"]
  ELSE LET f == Split(dynamodb_key.v, DYNAMODB_KEY_SEPARATOR[1])
       IN  IF Len(f) # 6 THEN [exc |-> "ValueError"]
           ELSE IF f[1] # WritesLit THEN [exc |-> "ValueError"]
           ELSE [exc |-> "none",
                 thread_id |-> f[2],
                 checkpoint_ns |-> f[3],
                 checkpoint_id |-> f[4],
                 task_id |-> f[5],
                 idx |-> PyStr(f[6])]

(***************************************************************************)
(* Sorting (Python's sorted is stable, also with reverse=True)             *)
(***************************************************************************)

\* sorted(s, key=..., reverse=reverse), keys[i] being the str key of s[i]:
\* elements whose keys are equal keep their input order.
Sorted(s, keys, reverse) ==
  LET Less(i, j) == IF reverse THEN StrLess(keys[j], keys[i])
                    ELSE StrLess(keys[i], keys[j])
      rank(i) == 1 + Cardinality({j \in 1..Len(s) :
                        \/ Less(j, i)
                        \/ (~Less(i, j) /\ j < i)})
  IN  [p \in 1..Len(s) |-> s[CHOOSE i \in 1..Len(s) : rank(i) = p]]

RECURSIVE SetToSeq(_)
SetToSeq(S) ==
  IF S = {} THEN << >>
  ELSE LET x == CHOOSE y \in S : TRUE IN << x >> \o SetToSeq(S \ {x})

\* All the orders in which a scan may return the members of S.
Orders(S) ==
  {s \in [1..Cardinality(S) -> S] : \A i, j \in 1..Cardinality(S) :
                                        s[i] = s[j] => i = j}

\* Python truthiness of None, a str, an int or a dict
Truthy(x) ==
  CASE x.ty = "NoneType" -> FALSE
    [] x.ty = "str" -> x.v # << >>
    [] x.ty = "int" -> x.v # 0
    [] OTHER -> TRUE

(***************************************************************************)
(* History filter                                                          *)
(***************************************************************************)

\* keys[:limit]
SliceTo(s, limit) ==
  IF limit >= 0 THEN SubSeq(s, 1, Min2(limit, Len(s)))
  ELSE SubSeq(s, 1, Len(s) + limit)

\* _filter_keys with the bound compared by <=.
_filter_keys_inclusive(keys, before, limit) ==
  LET Id(k) == _parse_dynamodb_checkpoint_key(k).checkpoint_id
      kept == IF Truthy(before)
              THEN SelectSeq(keys,
                     LAMBDA k : ~StrLess(before.v.checkpoint_id.v, Id(k)))
              ELSE keys
      sorted == Sorted(kept, [i \in 1..Len(kept) |-> Id(kept[i])], TRUE)
  IN  [exc |-> "none",
       val |-> IF Truthy(limit) THEN SliceTo(sorted, limit.v) ELSE sorted]

\* keys: a sequence of Python values; before: PyNone or the PyDict of a
\* config's "configurable"; limit: PyNone or a PyInt.
_filter_keys(keys, before, limit) ==
  IF \E i \in 1..Len(keys) : _parse_dynamodb_checkpoint_key(keys[i]).exc # "none"
  THEN LET Bad(k) == _parse_dynamodb_checkpoint_key(keys[k]).exc # "none"
           i == CHOOSE k \in 1..Len(keys) :
                  Bad(k) /\ \A j \in 1..(k - 1) : ~Bad(j)
       IN  [exc |-> _parse_dynamodb_checkpoint_key(keys[i]).exc, val |-> << >>]
  ELSE LET Id(k) == _parse_dynamodb_checkpoint_key(k).checkpoint_id
           kept == IF Truthy(before)
                   THEN SelectSeq(keys,
                          LAMBDA k : StrLess(Id(k), before.v.checkpoint_id.v))
                   ELSE keys
           sorted == Sorted(kept, [i \in 1..Len(kept) |-> Id(kept[i])], TRUE)
       IN  [exc |-> "none",
            val |-> IF Truthy(limit) THEN SliceTo(sorted, limit.v) ELSE sorted]

(***************************************************************************)
(* Serializer (self.serde): dumps_typed / loads_typed, dumps / loads       *)
(***************************************************************************)

dumps_typed(value) == << "msgpack", [packed |-> value] >>
loads_typed(typed) ==
  IF typed[1] = "msgpack" THEN typed[2].packed ELSE [undecodable |-> typed]
dumps(value) == [json |-> value]
loads(data) == data.json

(***************************************************************************)
(* The table                                                               *)
(***************************************************************************)

\* put_item as an update: an empty parent_checkpoint_id leaves the stored one.
put_item_merge(tbl, data) ==
  [pk \in DOMAIN tbl \cup {data.PK} |->
     IF pk # data.PK THEN tbl[pk]
     ELSE IF pk \in DOMAIN tbl /\ "parent_checkpoint_id" \in DOMAIN data
             /\ data.parent_checkpoint_id = << >>
     THEN [data EXCEPT !.parent_checkpoint_id = tbl[pk].parent_checkpoint_id]
     ELSE data]

\* put_item as a conditional put: an item that is stored is left as it is.
put_item_if_absent(tbl, data) ==
  [pk \in DOMAIN tbl \cup {data.PK} |-> IF pk \in DOMAIN tbl THEN tbl[pk] ELSE data]

\* put_item as an update: an item that is stored is flagged, not replaced.
put_item_counted(tbl, data) ==
  [pk \in DOMAIN tbl \cup {data.PK} |->
     IF pk # data.PK THEN tbl[pk]
     ELSE IF pk \in DOMAIN tbl THEN [tbl[pk] EXCEPT !.type = "msgpack+"]
     ELSE data]

\* table.put_item(Item=data): the item at data.PK is replaced as a whole.
put_item(tbl, data) ==
  [pk \in DOMAIN tbl \cup {data.PK} |-> IF pk = data.PK THEN data ELSE tbl[pk]]

\* table.get_item(Key={"PK": pk}): the response has an Item only if stored.
get_item(tbl, pk) ==
  IF pk \in DOMAIN tbl THEN [found |-> TRUE, Item |-> tbl[pk]]
  ELSE [found |-> FALSE]

\* table.scan(FilterExpression=Key('PK').begins_with(prefix))['Items'],
\* in the order `order` lists the table's keys.
scan(tbl, order, prefix) ==
  LET pks == SelectSeq(order, LAMBDA pk : pk \in DOMAIN tbl /\ BeginsWith(pk, prefix))
  IN  [i \in 1..Len(pks) |-> tbl[pks[i]]]

(***************************************************************************)
(* Saving                                                                  *)
(*                                                                         *)
(* A config is the record of config["configurable"]: thread_id and         *)
(* checkpoint_ns are strings, checkpoint_id is PyNone (the key is absent)  *)
(* or a PyStr.  A checkpoint is [id, v], a metadata [step].                *)
(***************************************************************************)

\* put_data with the key made from the config's checkpoint_id when it has one.
put_data_keyed_by_config(config, checkpoint, metadata) ==
  LET typed == dumps_typed(checkpoint)
      parent_checkpoint_id == config.checkpoint_id
  IN  [PK |-> _make_dynamodb_checkpoint_key(
                config.thread_id, config.checkpoint_ns,
                IF Truthy(parent_checkpoint_id) THEN parent_checkpoint_id.v
                ELSE checkpoint.id),
       checkpoint |-> typed[2],
       type |-> typed[1],
       metadata |-> dumps(metadata),
       parent_checkpoint_id |->
         IF Truthy(parent_checkpoint_id) THEN parent_checkpoint_id.v ELSE << >>]

\* put_data with the checkpoint's own id stored as its parent.
put_data_own_parent(config, checkpoint, metadata) ==
  LET typed == dumps_typed(checkpoint)
  IN  [PK |-> _make_dynamodb_checkpoint_key(
                config.thread_id, config.checkpoint_ns, checkpoint.id),
       checkpoint |-> typed[2],
       type |-> typed[1],
       metadata |-> dumps(metadata),
       parent_checkpoint_id |-> checkpoint.id]

\* The item put builds from its arguments.
put_data(config, checkpoint, metadata) ==
  LET thread_id == config.thread_id
      checkpoint_ns == config.checkpoint_ns
      checkpoint_id == checkpoint.id
      parent_checkpoint_id == config.checkpoint_id
      key == _make_dynamodb_checkpoint_key(thread_id, checkpoint_ns, checkpoint_id)
      typed == dumps_typed(checkpoint)
  IN  [PK |-> key,
       checkpoint |-> typed[2],
       type |-> typed[1],
       metadata |-> dumps(metadata),
       parent_checkpoint_id |->
         IF Truthy(parent_checkpoint_id) THEN parent_checkpoint_id.v ELSE << >>]

\* The config put returns.
put_return(config, checkpoint) ==
  [thread_id |-> config.thread_id,
   checkpoint_ns |-> config.checkpoint_ns,
   checkpoint_id |-> PyStr(checkpoint.id)]

\* The table after put.
put(tbl, config, checkpoint, metadata) ==
  put_item(tbl, put_data(config, checkpoint, metadata))

\* langgraph.checkpoint.base.WRITES_IDX_MAP
WRITES_IDX_MAP ==
  ("__error__" :> -1) @@ ("__scheduled__" :> -2) @@
  ("__interrupt__" :> -3) @@ ("__resume__" :> -4)

\* WRITES_IDX_MAP.get(channel, idx)
writes_idx(channel, idx) ==
  IF channel \in DOMAIN WRITES_IDX_MAP THEN WRITES_IDX_MAP[channel] ELSE idx

\* put_writes_data with the position as idx for every channel.
put_writes_data_positional(config, writes, task_id, idx) ==
  LET channel == writes[idx + 1][1]
      value == writes[idx + 1][2]
      key == _make_dynamodb_checkpoint_writes_key(
               config.thread_id, config.checkpoint_ns, config.checkpoint_id.v,
               task_id, PyInt(idx))
      typed == dumps_typed(value)
  IN  [PK |-> key, channel |-> channel, type |-> typed[1], value |-> typed[2]]

\* The item put_writes builds for the entry at position idx (from 0) of writes.
put_writes_data(config, writes, task_id, idx) ==
  LET channel == writes[idx + 1][1]
      value == writes[idx + 1][2]
      key == _make_dynamodb_checkpoint_writes_key(
               config.thread_id, config.checkpoint_ns, config.checkpoint_id.v,
               task_id, PyInt(writes_idx(channel, idx)))
      typed == dumps_typed(value)
  IN  [PK |-> key, channel |-> channel, type |-> typed[1], value |-> typed[2]]

RECURSIVE put_writes_from(_, _, _, _, _)
\* The table after the loop of put_writes has run from position idx on.
put_writes_from(tbl, config, writes, task_id, idx) ==
  IF idx >= Len(writes) THEN tbl
  ELSE put_writes_from(put_item(tbl, put_writes_data(config, writes, task_id, idx)),
                       config, writes, task_id, idx + 1)

\* put_writes_raise with the puts of the call undone.
put_writes_raise_rollback(tbl, begin) == begin

\* The table when put_item raises inside the loop of put_writes: nothing
\* catches the exception, the items put so far stay; begin is the table the
\* call started from.
put_writes_raise(tbl, begin) == tbl

\* The table after put_writes.
put_writes(tbl, config, writes, task_id) ==
  put_writes_from(tbl, config, writes, task_id, 0)

(***************************************************************************)
(* Loading                                                                 *)
(***************************************************************************)

RECURSIVE DictFromPairs(_)
\* A dict built from <<key, value>> pairs in order: a repeated key keeps its
\* first position and takes the later value.
DictFromPairs(pairs) ==
  IF Len(pairs) = 0 THEN << >>
  ELSE LET d == DictFromPairs(SubSeq(pairs, 1, Len(pairs) - 1))
           x == pairs[Len(pairs)]
       IN  IF \E i \in 1..Len(d) : d[i][1] = x[1]
           THEN [i \in 1..Len(d) |-> IF d[i][1] = x[1] THEN x ELSE d[i]]
           ELSE Append(d, x)

\* task_id_to_data: the dict as its <<(task_id, idx), data>> pairs in order.
_load_writes(task_id_to_data) ==
  [i \in 1..Len(task_id_to_data) |->
     << task_id_to_data[i][1][1],
        task_id_to_data[i][2].channel,
        loads_typed(<< task_id_to_data[i][2].type, task_id_to_data[i][2].value >>) >>]

_load_pending_writes(tbl, order, thread_id, checkpoint_ns, checkpoint_id) ==
  LET writes_key == _make_dynamodb_checkpoint_writes_key(
                      thread_id, checkpoint_ns, checkpoint_id, Star, PyNone)
      matching_keys == scan(tbl, order, writes_key)
      parsed_keys == [i \in 1..Len(matching_keys) |->
                        _parse_dynamodb_checkpoint_writes_key(PyStr(matching_keys[i].PK))]
  IN  IF \E i \in 1..Len(parsed_keys) : parsed_keys[i].exc # "none"
      THEN [exc |-> "ValueError", val |-> << >>]
      ELSE LET zipped == [i \in 1..Len(matching_keys) |->
                            << matching_keys[i], parsed_keys[i] >>]
               sorted == Sorted(zipped,
                                [i \in 1..Len(zipped) |-> zipped[i][2].idx.v], FALSE)
           IN  IF \E i \in 1..Len(sorted) : ~get_item(tbl, sorted[i][1].PK).found
               THEN [exc |-> "KeyError", val |-> << >>]
               ELSE [exc |-> "none",
                     val |-> _load_writes(DictFromPairs(
                       [i \in 1..Len(sorted) |->
                          << << sorted[i][2].task_id, sorted[i][2].idx >>,
                             get_item(tbl, sorted[i][1].PK).Item >>]))]

\* The loader up to its gets: the scanned items zipped with their parsed
\* keys, sorted by idx.
_load_pending_writes_sorted(tbl, order, thread_id, checkpoint_ns, checkpoint_id) ==
  LET writes_key == _make_dynamodb_checkpoint_writes_key(
                      thread_id, checkpoint_ns, checkpoint_id, Star, PyNone)
      matching_keys == scan(tbl, order, writes_key)
      parsed_keys == [i \in 1..Len(matching_keys) |->
                        _parse_dynamodb_checkpoint_writes_key(PyStr(matching_keys[i].PK))]
  IN  IF \E i \in 1..Len(parsed_keys) : parsed_keys[i].exc # "none"
      THEN [exc |-> "ValueError", val |-> << >>]
      ELSE LET zipped == [i \in 1..Len(matching_keys) |->
                            << matching_keys[i], parsed_keys[i] >>]
           IN  [exc |-> "none",
                val |-> Sorted(zipped,
                               [i \in 1..Len(zipped) |-> zipped[i][2].idx.v], FALSE)]

\* _load_pending_writes_get that leaves out a key without item.
_load_pending_writes_get_skip(pairs, zipped, response) ==
  IF ~response.found THEN [exc |-> "none", val |-> pairs]
  ELSE [exc |-> "none",
        val |-> Append(pairs, << << zipped[2].task_id, zipped[2].idx >>,
                                 response.Item >>)]

\* One element of the loader's dict: the key (task_id, idx) and the 'Item' of
\* the response of get_item, added to the pairs made so far; a response
\* without Item raises KeyError.
_load_pending_writes_get(pairs, zipped, response) ==
  IF ~response.found THEN [exc |-> "KeyError", val |-> pairs]
  ELSE [exc |-> "none",
        val |-> Append(pairs, << << zipped[2].task_id, zipped[2].idx >>,
                                 response.Item >>)]

\* max(all_keys, key=...): the first of the items with the greatest id.
MaxById(items) ==
  LET Id(i) == _parse_dynamodb_checkpoint_key(PyStr(items[i].PK)).checkpoint_id
  IN  items[CHOOSE i \in 1..Len(items) :
              /\ \A j \in 1..Len(items) : ~StrLess(Id(i), Id(j))
              /\ \A j \in 1..(i - 1) : StrLess(Id(j), Id(i))]

\* _get_checkpoint_key with the scan's prefix ending after the thread_id.
_get_checkpoint_key_thread_prefix(tbl, order, thread_id, checkpoint_ns, checkpoint_id) ==
  IF Truthy(checkpoint_id)
  THEN [exc |-> "none",
        val |-> PyStr(_make_dynamodb_checkpoint_key(thread_id, checkpoint_ns,
                                                    checkpoint_id.v))]
  ELSE LET all_keys == scan(tbl, order,
                         CheckpointLit \o DYNAMODB_KEY_SEPARATOR \o thread_id)
       IN  IF Len(all_keys) = 0 THEN [exc |-> "none", val |-> PyNone]
           ELSE IF \E i \in 1..Len(all_keys) :
                     _parse_dynamodb_checkpoint_key(PyStr(all_keys[i].PK)).exc # "none"
           THEN [exc |-> "ValueError", val |-> PyNone]
           ELSE [exc |-> "none", val |-> PyStr(MaxById(all_keys).PK)]

\* checkpoint_id: PyNone or a PyStr.  The result is PyNone or the PyStr key.
_get_checkpoint_key(tbl, order, thread_id, checkpoint_ns, checkpoint_id) ==
  IF Truthy(checkpoint_id)
  THEN [exc |-> "none",
        val |-> PyStr(_make_dynamodb_checkpoint_key(thread_id, checkpoint_ns,
                                                    checkpoint_id.v))]
  ELSE LET all_keys == scan(tbl, order,
                         _make_dynamodb_checkpoint_key(thread_id, checkpoint_ns, Star))
       IN  IF Len(all_keys) = 0 THEN [exc |-> "none", val |-> PyNone]
           ELSE IF \E i \in 1..Len(all_keys) :
                     _parse_dynamodb_checkpoint_key(PyStr(all_keys[i].PK)).exc # "none"
           THEN [exc |-> "ValueError", val |-> PyNone]
           ELSE [exc |-> "none", val |-> PyStr(MaxById(all_keys).PK)]

\* _parse_dynamodb_checkpoint_data without the test of the data: of no data
\* it makes a tuple of nothing.
_parse_dynamodb_checkpoint_data_unchecked(key, data, pending_writes) ==
  LET parsed_key == _parse_dynamodb_checkpoint_key(PyStr(key))
  IN  [ty |-> "CheckpointTuple",
       v |-> [config |-> [thread_id |-> parsed_key.thread_id,
                          checkpoint_ns |-> parsed_key.checkpoint_ns,
                          checkpoint_id |-> PyStr(parsed_key.checkpoint_id)],
              checkpoint |-> IF data.found
                             THEN loads_typed(<< data.Item.type, data.Item.checkpoint >>)
                             ELSE PyNone,
              metadata |-> IF data.found THEN loads(data.Item.metadata) ELSE PyNone,
              parent_config |-> PyNone,
              pending_writes |-> pending_writes]]

\* data: the response of get_item (no Item: the empty dict).  The result is
\* PyNone or a CheckpointTuple.
_parse_dynamodb_checkpoint_data(key, data, pending_writes) ==
  IF ~data.found THEN PyNone
  ELSE LET parsed_key == _parse_dynamodb_checkpoint_key(PyStr(key))
           thread_id == parsed_key.thread_id
           checkpoint_ns == parsed_key.checkpoint_ns
           checkpoint_id == parsed_key.checkpoint_id
           parent_checkpoint_id ==
             IF "parent_checkpoint_id" \in DOMAIN data.Item
             THEN data.Item.parent_checkpoint_id ELSE << >>
       IN  [ty |-> "CheckpointTuple",
            v |-> [config |-> [thread_id |-> thread_id,
                               checkpoint_ns |-> checkpoint_ns,
                               checkpoint_id |-> PyStr(checkpoint_id)],
                   checkpoint |-> loads_typed(<< data.Item.type, data.Item.checkpoint >>),
                   metadata |-> loads(data.Item.metadata),
                   parent_config |->
                     IF parent_checkpoint_id # << >>
                     THEN PyDict([thread_id |-> thread_id,
                                  checkpoint_ns |-> checkpoint_ns,
                                  checkpoint_id |-> PyStr(parent_checkpoint_id)])
                     ELSE PyNone,
                   pending_writes |-> pending_writes]]

\* The result of get_tuple: an exception, or PyNone, or a CheckpointTuple.
get_tuple(tbl, order, config) ==
  LET thread_id == config.thread_id
      checkpoint_ns == config.checkpoint_ns
      found_key == _get_checkpoint_key(tbl, order, thread_id, checkpoint_ns,
                                       config.checkpoint_id)
  IN  IF found_key.exc # "none" THEN [exc |-> found_key.exc, val |-> PyNone]
      ELSE IF ~Truthy(found_key.val) THEN [exc |-> "none", val |-> PyNone]
      ELSE LET checkpoint_key == found_key.val.v
               checkpoint_data == get_item(tbl, checkpoint_key)
               checkpoint_id ==
                 IF Truthy(config.checkpoint_id) THEN config.checkpoint_id.v
                 ELSE _parse_dynamodb_checkpoint_key(found_key.val).checkpoint_id
               pending_writes == _load_pending_writes(tbl, order, thread_id,
                                                      checkpoint_ns, checkpoint_id)
           IN  IF pending_writes.exc # "none"
               THEN [exc |-> pending_writes.exc, val |-> PyNone]
               ELSE [exc |-> "none",
                     val |-> _parse_dynamodb_checkpoint_data(
                               checkpoint_key, checkpoint_data, pending_writes.val)]

RECURSIVE list_loop(_, _, _, _, _, _)
\* The for loop of list from position i of keys on: what it yields, and the
\* exception that ends it.
list_loop(tbl, order, thread_id, checkpoint_ns, keys, i) ==
  IF i > Len(keys) THEN [exc |-> "none", yielded |-> << >>]
  ELSE IF keys[i].ty # "str" THEN [exc |-> "ClientError", yielded |-> << >>]
  ELSE LET key == keys[i].v
           data == get_item(tbl, key)
           rest == list_loop(tbl, order, thread_id, checkpoint_ns, keys, i + 1)
       IN  IF data.found /\ "checkpoint" \in DOMAIN data.Item
                         /\ "metadata" \in DOMAIN data.Item
           THEN LET checkpoint_id == _parse_dynamodb_checkpoint_key(keys[i]).checkpoint_id
                    pending_writes == _load_pending_writes(tbl, order, thread_id,
                                                           checkpoint_ns, checkpoint_id)
                IN  IF pending_writes.exc # "none"
                    THEN [exc |-> pending_writes.exc, yielded |-> << >>]
                    ELSE [exc |-> rest.exc,
                          yielded |-> << _parse_dynamodb_checkpoint_data(
                                           key, data, pending_writes.val) >>
                                      \o rest.yielded]
           ELSE rest

\* What iterating list(config, before=before, limit=limit) yields, and the
\* exception it ends with.  The items of the scan go to _filter_keys as they
\* are: dicts.
list(tbl, order, config, before, limit) ==
  LET thread_id == config.thread_id
      checkpoint_ns == config.checkpoint_ns
      pattern == _make_dynamodb_checkpoint_key(thread_id, checkpoint_ns, Star)
      items == scan(tbl, order, pattern)
      keys == _filter_keys([i \in 1..Len(items) |-> PyDict(items[i])], before, limit)
  IN  IF keys.exc # "none" THEN [exc |-> keys.exc, yielded |-> << >>]
      ELSE list_loop(tbl, order, thread_id, checkpoint_ns, keys.val, 1)

(***************************************************************************)
(* State                                                                   *)
(***************************************************************************)

VARIABLES
  table,    \* the DynamoDB table: PK -> item
  putlog,   \* <<thread_id, checkpoint_ns, id>> -> the arguments of the last put
  wlog,     \* <<thread_id, checkpoint_ns, id, task_id, idx>> -> the entry last written
  calls,    \* the put calls in progress, by caller
  ret       \* the last call and what it returned

vars == << table, putlog, wlog, calls, ret >>

Empty == [x \in {} |-> 0]

Upd(f, k, val) == [x \in DOMAIN f \cup {k} |-> IF x = k THEN val ELSE f[x]]

\* A caller takes the result of a read before the next call is made.
Ready == ret.op \notin {"get_tuple", "list", "load_pending_writes", "pages"}

(***************************************************************************)
(* Inputs                                                                  *)
(***************************************************************************)

MaxCheckpoints == 2
MaxLimit == 1

ThreadIds == {<< "t" >>}
Namespaces == {<< >>, << "n" >>}
CheckpointIds == {<< "*" >>, << "a" >>, << "b" >>}
SaveValues == {1, 2}

OptIds == {PyNone} \cup {PyStr(c) : c \in CheckpointIds}
Configs == [thread_id : ThreadIds, checkpoint_ns : Namespaces, checkpoint_id : OptIds]
Limits == {PyNone} \cup {PyInt(n) : n \in 0..MaxLimit}

WritePKs(tbl) == {pk \in DOMAIN tbl : BeginsWith(pk, WritesLit)}
CheckpointPKs(tbl) == {pk \in DOMAIN tbl : BeginsWith(pk, CheckpointLit)}

\* The orders a scan may return the table's items in: any order of the write
\* items (ties of idx between tasks are broken by it); the checkpoint items,
\* whose ids never tie, in one order.
ScanOrders(tbl) ==
  {SetToSeq(CheckpointPKs(tbl)) \o w : w \in Orders(WritePKs(tbl))}

(***************************************************************************)
(* Spec: checkpoints are saved, fetched and listed                         *)
(***************************************************************************)

Init ==
  /\ table = Empty
  /\ putlog = Empty
  /\ wlog = Empty
  /\ calls = Empty
  /\ ret = [op |-> "none"]

Put ==
  /\ Ready
  /\ \E config \in Configs, id \in CheckpointIds, s \in SaveValues :
    LET checkpoint == [id |-> id, v |-> s]
        metadata == [step |-> s]
        ident == << config.thread_id, config.checkpoint_ns, checkpoint.id >>
    IN  /\ Cardinality(DOMAIN putlog \cup {ident}) <= MaxCheckpoints
        /\ table' = put(table, config, checkpoint, metadata)
        /\ putlog' = Upd(putlog, ident,
                         [config |-> config, checkpoint |-> checkpoint,
                          metadata |-> metadata])
        /\ ret' = [op |-> "put", config |-> config, checkpoint |-> checkpoint,
                   metadata |-> metadata, val |-> put_return(config, checkpoint)]
        /\ UNCHANGED << wlog, calls >>

GetTuple ==
  /\ Ready
  /\ \E config \in Configs, order \in ScanOrders(table) :
    /\ ret' = [op |-> "get_tuple", config |-> config,
               res |-> get_tuple(table, order, config)]
    /\ UNCHANGED << table, putlog, wlog, calls >>

List ==
  /\ Ready
  /\ \E config \in Configs, before \in OptIds, limit \in Limits,
     order \in ScanOrders(table) :
    /\ config.checkpoint_id = PyNone
    /\ ret' = [op |-> "list", config |-> config, before |-> before, limit |-> limit,
               res |-> list(table, order, config,
                            IF before = PyNone THEN PyNone
                            ELSE PyDict([config EXCEPT !.checkpoint_id = before]),
                            limit)]
    /\ UNCHANGED << table, putlog, wlog, calls >>

\* The caller has taken the result of its read.
Return ==
  /\ ~Ready
  /\ ret' = [op |-> "none"]
  /\ UNCHANGED << table, putlog, wlog, calls >>

Next == Put \/ GetTuple \/ List \/ Return

Spec == Init /\ [][Next]_vars

(***************************************************************************)
(* SpecWrites: writes are saved against checkpoints of thread "t", of      *)
(* which the one of the empty namespace is stored, and loaded              *)
(***************************************************************************)

MaxWrites == 2
MaxWriteItems == 2

WriteCheckpointIds == {<< "a" >>}
TaskIds == {<< "k" >>, << "*" >>}
WriteEntries == {<< "chan1", 1 >>, << "chan2", 2 >>, << "__error__", 3 >>}
WriteLists == UNION {[1..n -> WriteEntries] : n \in 1..MaxWrites}
WriteConfigs ==
  [thread_id : ThreadIds, checkpoint_ns : Namespaces,
   checkpoint_id : {PyStr(c) : c \in WriteCheckpointIds}]

SeedConfig == [thread_id |-> << "t" >>, checkpoint_ns |-> << >>, checkpoint_id |-> PyNone]
SeedCheckpoint == [id |-> << "a" >>, v |-> 1]
SeedMetadata == [step |-> 1]

\* The keys put_writes writes, as identities.
WriteKeys(config, writes, task_id) ==
  {<< config.thread_id, config.checkpoint_ns, config.checkpoint_id.v, task_id,
      writes_idx(writes[i][1], i - 1) >> : i \in 1..Len(writes)}

\* The entry of writes that is written last under the identity k.
LastEntry(writes, k) ==
  writes[CHOOSE i \in 1..Len(writes) :
           /\ writes_idx(writes[i][1], i - 1) = k[5]
           /\ \A j \in (i + 1)..Len(writes) : writes_idx(writes[j][1], j - 1) # k[5]]

InitWrites ==
  /\ table = put(Empty, SeedConfig, SeedCheckpoint, SeedMetadata)
  /\ putlog = Upd(Empty, << << "t" >>, << >>, << "a" >> >>,
                  [config |-> SeedConfig, checkpoint |-> SeedCheckpoint,
                   metadata |-> SeedMetadata])
  /\ wlog = Empty
  /\ calls = Empty
  /\ ret = [op |-> "none"]

PutWrites ==
  /\ Ready
  /\ \E config \in WriteConfigs, writes \in WriteLists, task_id \in TaskIds :
    /\ Cardinality(DOMAIN wlog \cup WriteKeys(config, writes, task_id)) <= MaxWriteItems
    /\ table' = put_writes(table, config, writes, task_id)
    /\ wlog' = [k \in DOMAIN wlog \cup WriteKeys(config, writes, task_id) |->
                  IF k \in WriteKeys(config, writes, task_id)
                  THEN LastEntry(writes, k)
                  ELSE wlog[k]]
    /\ ret' = [op |-> "put_writes", config |-> config, writes |-> writes,
               task_id |-> task_id]
    /\ UNCHANGED << putlog, calls >>

NextWrites == PutWrites \/ GetTuple \/ List \/ Return

SpecWrites == InitWrites /\ [][NextWrites]_vars

(***************************************************************************)
(* SpecCodec: keys are made and parsed                                     *)
(***************************************************************************)

MaxFieldLen == 1
MaxIdx == 10

FieldChars == {"a", "$"}
FieldStrings == UNION {[1..n -> FieldChars] : n \in 0..MaxFieldLen}
\* The indices put_writes uses: those of WRITES_IDX_MAP and the positions.
Idxs == {WRITES_IDX_MAP[c] : c \in DOMAIN WRITES_IDX_MAP} \cup 0..MaxIdx

MakeCheckpointKey ==
  /\ ret.op = "none"
  /\ \E t \in FieldStrings, n \in FieldStrings, c \in FieldStrings :
    /\ ret' = [op |-> "checkpoint_key", ident |-> << t, n, c >>,
               key |-> _make_dynamodb_checkpoint_key(t, n, c)]
    /\ UNCHANGED << table, putlog, wlog, calls >>

ParseCheckpointKey ==
  /\ ret.op = "checkpoint_key"
  /\ ret' = [op |-> "checkpoint_key_parsed", ident |-> ret.ident, key |-> ret.key,
             parsed |-> _parse_dynamodb_checkpoint_key(PyStr(ret.key))]
  /\ UNCHANGED << table, putlog, wlog, calls >>

MakeWritesKey ==
  /\ ret.op = "none"
  /\ \E t \in FieldStrings, n \in FieldStrings, c \in FieldStrings,
     task_id \in FieldStrings, idx \in Idxs :
    /\ ret' = [op |-> "writes_key", ident |-> << t, n, c, task_id, PyInt(idx) >>,
               key |-> _make_dynamodb_checkpoint_writes_key(t, n, c, task_id, PyInt(idx))]
    /\ UNCHANGED << table, putlog, wlog, calls >>

ParseWritesKey ==
  /\ ret.op = "writes_key"
  /\ ret' = [op |-> "writes_key_parsed", ident |-> ret.ident, key |-> ret.key,
             parsed |-> _parse_dynamodb_checkpoint_writes_key(PyStr(ret.key))]
  /\ UNCHANGED << table, putlog, wlog, calls >>

NextCodec == MakeCheckpointKey \/ ParseCheckpointKey \/ MakeWritesKey \/ ParseWritesKey

SpecCodec == Init /\ [][NextCodec]_vars

(***************************************************************************)
(* SpecFilter: keys of one thread and namespace are filtered               *)
(***************************************************************************)

MaxKeys == 3
MaxFilterLimit == 2

FilterIds == {<< "*" >>, << "a" >>, << "a", "b" >>, << "b" >>}
\* The ids of the scanned keys, in the order of the scan.
FilterIdLists ==
  UNION {{s \in [1..n -> FilterIds] : \A i, j \in 1..n : s[i] = s[j] => i = j} :
           n \in 0..Min2(MaxKeys, Cardinality(FilterIds))}
FilterLimits == {PyNone} \cup {PyInt(n) : n \in 0..MaxFilterLimit}

FilterKeys ==
  /\ ret.op = "none"
  /\ \E ids \in FilterIdLists, before \in {PyNone} \cup {PyStr(c) : c \in FilterIds},
     limit \in FilterLimits :
    LET keys == [i \in 1..Len(ids) |->
                   PyStr(_make_dynamodb_checkpoint_key(<< "t" >>, << >>, ids[i]))]
        bound == IF before = PyNone THEN PyNone
                 ELSE PyDict([thread_id |-> << "t" >>, checkpoint_ns |-> << >>,
                              checkpoint_id |-> before])
    IN  /\ ret' = [op |-> "filter_keys", ids |-> ids, keys |-> keys,
                   before |-> before, limit |-> limit,
                   res |-> _filter_keys(keys, bound, limit)]
        /\ UNCHANGED << table, putlog, wlog, calls >>

NextFilter == FilterKeys

SpecFilter == Init /\ [][NextFilter]_vars

(***************************************************************************)
(* SpecRace: callers run put at the same time; a put is two steps, the     *)
(* item is built and then put into the table                               *)
(***************************************************************************)

NumCallers == 2

Callers == 1..NumCallers
RaceIds == {<< "a" >>, << "b" >>}
RaceConfigs ==
  [thread_id : ThreadIds, checkpoint_ns : {<< >>},
   checkpoint_id : {PyNone, PyStr(<< "a" >>)}]

InitRace ==
  /\ table = Empty
  /\ putlog = Empty
  /\ wlog = Empty
  /\ calls = [p \in Callers |-> [pc |-> "idle"]]
  /\ ret = [op |-> "none"]

\* put up to the call of table.put_item
PutBuild(p) ==
  /\ calls[p].pc = "idle"
  /\ \E config \in RaceConfigs, id \in RaceIds, s \in SaveValues :
    LET checkpoint == [id |-> id, v |-> s]
        metadata == [step |-> s]
    IN  /\ calls' = [calls EXCEPT ![p] =
                       [pc |-> "put_item", config |-> config,
                        checkpoint |-> checkpoint, metadata |-> metadata,
                        data |-> put_data(config, checkpoint, metadata)]]
        /\ UNCHANGED << table, putlog, wlog, ret >>

\* table.put_item and the return of put
PutLand(p) ==
  /\ calls[p].pc = "put_item"
  /\ table' = put_item(table, calls[p].data)
  /\ putlog' = Upd(putlog,
                   << calls[p].config.thread_id, calls[p].config.checkpoint_ns,
                      calls[p].checkpoint.id >>,
                   [config |-> calls[p].config, checkpoint |-> calls[p].checkpoint,
                    metadata |-> calls[p].metadata])
  /\ calls' = [calls EXCEPT ![p] =
                 [pc |-> "done", config |-> calls[p].config,
                  checkpoint |-> calls[p].checkpoint, metadata |-> calls[p].metadata,
                  raced |-> \E q \in Callers \ {p} :
                              /\ calls[q].pc = "put_item"
                              /\ calls[q].data.PK = calls[p].data.PK,
                  val |-> put_return(calls[p].config, calls[p].checkpoint)]]
  /\ UNCHANGED << wlog, ret >>

\* the caller goes on to its next put
PutDone(p) ==
  /\ calls[p].pc = "done"
  /\ calls' = [calls EXCEPT ![p] = [pc |-> "idle"]]
  /\ UNCHANGED << table, putlog, wlog, ret >>

NextRace == \E p \in Callers : PutBuild(p) \/ PutLand(p) \/ PutDone(p)

SpecRace == InitRace /\ [][NextRace]_vars

(***************************************************************************)
(* SpecSort: lists of up to MaxIdx + 1 writes are saved for the stored     *)
(* checkpoint under a task id the loader's prefix matches, and loaded      *)
(***************************************************************************)

SortConfig ==
  [thread_id |-> << "t" >>, checkpoint_ns |-> << >>, checkpoint_id |-> PyStr(<< "a" >>)]
SortTaskId == << "*" >>
SortChannels == {"chan1", "__error__", "__scheduled__"}

\* n writes, the one at position e (from 1; none when e = 0) on the channel
\* at_e, the others on "chan1"; the value of a write is its position from 0.
LongWrites(n, e, at_e) ==
  [i \in 1..n |-> << IF i = e THEN at_e ELSE "chan1", i - 1 >>]

\* The table's keys in one order and in the opposite one.
SortOrders(tbl) ==
  LET s == SetToSeq(DOMAIN tbl)
  IN  {s, [i \in 1..Len(s) |-> s[Len(s) + 1 - i]]}

\* One list is saved: the sets of stored idx are those one call leaves.
PutWritesLong ==
  /\ Ready
  /\ wlog = Empty
  /\ \E n \in 1..(MaxIdx + 1), e \in 0..(MaxIdx + 1), at_e \in SortChannels :
    LET writes == LongWrites(n, e, at_e)
    IN  /\ e <= n
        /\ table' = put_writes(table, SortConfig, writes, SortTaskId)
        /\ wlog' = [k \in DOMAIN wlog \cup WriteKeys(SortConfig, writes, SortTaskId) |->
                      IF k \in WriteKeys(SortConfig, writes, SortTaskId)
                      THEN LastEntry(writes, k)
                      ELSE wlog[k]]
        /\ ret' = [op |-> "put_writes", config |-> SortConfig, writes |-> writes,
                   task_id |-> SortTaskId]
        /\ UNCHANGED << putlog, calls >>

LoadPendingWrites ==
  /\ Ready
  /\ \E order \in SortOrders(table) :
    /\ ret' = [op |-> "load_pending_writes", config |-> SortConfig,
               res |-> _load_pending_writes(table, order, SortConfig.thread_id,
                                            SortConfig.checkpoint_ns,
                                            SortConfig.checkpoint_id.v)]
    /\ UNCHANGED << table, putlog, wlog, calls >>

LoadReturn ==
  /\ ret.op = "load_pending_writes"
  /\ ret' = [op |-> "none"]
  /\ UNCHANGED << table, putlog, wlog, calls >>

NextSort == PutWritesLong \/ LoadPendingWrites \/ LoadReturn

SpecSort == InitWrites /\ [][NextSort]_vars

(***************************************************************************)
(* SpecLoad: the loader runs get by get over a table of saved writes while *)
(* another client of the table deletes write items                        *)
(***************************************************************************)

InitLoad ==
  /\ \E writes \in WriteLists, task_id \in TaskIds :
       /\ table = put_writes(put(Empty, SeedConfig, SeedCheckpoint, SeedMetadata),
                             SortConfig, writes, task_id)
       /\ wlog = [k \in WriteKeys(SortConfig, writes, task_id) |-> LastEntry(writes, k)]
  /\ putlog = Upd(Empty, << << "t" >>, << >>, << "a" >> >>,
                  [config |-> SeedConfig, checkpoint |-> SeedCheckpoint,
                   metadata |-> SeedMetadata])
  /\ calls = [pc |-> "idle"]
  /\ ret = [op |-> "none"]

\* The scan, the parse of the keys and the sort.
LoadScan ==
  /\ calls.pc = "idle"
  /\ \E order \in ScanOrders(table) :
    LET sorted == _load_pending_writes_sorted(table, order, SortConfig.thread_id,
                                              SortConfig.checkpoint_ns,
                                              SortConfig.checkpoint_id.v)
    IN  /\ sorted.exc = "none"
        /\ calls' = [pc |-> "get", sorted |-> sorted.val, i |-> 1, pairs |-> << >>,
                     missed |-> FALSE]
        /\ ret' = [op |-> "none"]
        /\ UNCHANGED << table, putlog, wlog >>

\* The get_item of the next key of the sorted list.
LoadGet ==
  /\ calls.pc = "get"
  /\ calls.i <= Len(calls.sorted)
  /\ LET response == get_item(table, calls.sorted[calls.i][1].PK)
         got == _load_pending_writes_get(calls.pairs, calls.sorted[calls.i], response)
     IN  IF got.exc # "none"
         THEN /\ calls' = [pc |-> "idle"]
              /\ ret' = [op |-> "load_pending_writes", scanned |-> calls.sorted,
                         missed |-> TRUE, at |-> calls.i,
                         res |-> [exc |-> got.exc, val |-> << >>]]
         ELSE /\ calls' = [calls EXCEPT !.i = calls.i + 1, !.pairs = got.val,
                                        !.missed = calls.missed \/ ~response.found]
              /\ UNCHANGED ret
  /\ UNCHANGED << table, putlog, wlog >>

\* Every key is fetched: the writes are decoded and returned.
LoadDone ==
  /\ calls.pc = "get"
  /\ calls.i > Len(calls.sorted)
  /\ ret' = [op |-> "load_pending_writes", scanned |-> calls.sorted,
             missed |-> calls.missed, at |-> calls.i,
             res |-> [exc |-> "none", val |-> _load_writes(DictFromPairs(calls.pairs))]]
  /\ calls' = [pc |-> "idle"]
  /\ UNCHANGED << table, putlog, wlog >>

\* Another client deletes a write item.
EnvDelete ==
  /\ \E pk \in WritePKs(table) :
       table' = [x \in DOMAIN table \ {pk} |-> table[x]]
  /\ UNCHANGED << putlog, wlog, calls, ret >>

NextLoad == LoadScan \/ LoadGet \/ LoadDone \/ EnvDelete

SpecLoad == InitLoad /\ [][NextLoad]_vars

(***************************************************************************)
(* SpecTomb: checkpoints are saved and listed while another client of the  *)
(* table leaves checkpoint records without their checkpoint or metadata    *)
(***************************************************************************)

\* Another client leaves a checkpoint item without one of the fields list
\* tests for.
EnvTombstone ==
  /\ Ready
  /\ \E pk \in CheckpointPKs(table), field \in {"checkpoint", "metadata"} :
       /\ field \in DOMAIN table[pk]
       /\ table' = [table EXCEPT ![pk] =
                      [f \in DOMAIN table[pk] \ {field} |-> table[pk][f]]]
  /\ UNCHANGED << putlog, wlog, calls, ret >>

NextTomb == Put \/ EnvTombstone \/ List \/ Return

SpecTomb == Init /\ [][NextTomb]_vars

(***************************************************************************)
(* SpecScope: checkpoints and writes of several threads and namespaces,    *)
(* one thread_id a prefix of another and one holding the separator, are    *)
(* saved and read; what is saved carries the identity it was saved under   *)
(***************************************************************************)

ScopeThreads == {<< "t" >>, << "t", "t" >>, << "t", "$" >>}
ScopeId == << "*" >>
ScopeTaskId == << "*" >>
ScopeConfigs ==
  [thread_id : ScopeThreads, checkpoint_ns : Namespaces, checkpoint_id : {PyNone}]

ScopePut ==
  /\ Ready
  /\ \E config \in ScopeConfigs :
    LET checkpoint == [id |-> ScopeId,
                       v |-> << config.thread_id, config.checkpoint_ns >>]
        metadata == [step |-> 1]
    IN  /\ Cardinality(CheckpointPKs(table)
                       \cup {put_data(config, checkpoint, metadata).PK}) <= MaxCheckpoints
        /\ table' = put(table, config, checkpoint, metadata)
        /\ ret' = [op |-> "put", config |-> config, checkpoint |-> checkpoint,
                   metadata |-> metadata, val |-> put_return(config, checkpoint)]
        /\ UNCHANGED << putlog, wlog, calls >>

ScopePutWrites ==
  /\ Ready
  /\ \E c \in ScopeConfigs :
    LET config == [c EXCEPT !.checkpoint_id = PyStr(ScopeId)]
        writes == << << "chan1", << c.thread_id, c.checkpoint_ns, ScopeId >> >> >>
    IN  /\ Cardinality(WritePKs(table)
                       \cup {put_writes_data(config, writes, ScopeTaskId, 0).PK})
             <= MaxWriteItems
        /\ table' = put_writes(table, config, writes, ScopeTaskId)
        /\ ret' = [op |-> "put_writes", config |-> config, writes |-> writes,
                   task_id |-> ScopeTaskId]
        /\ UNCHANGED << putlog, wlog, calls >>

\* get_tuple with a config without checkpoint_id
GetLatest ==
  /\ Ready
  /\ \E config \in ScopeConfigs, order \in ScanOrders(table) :
    /\ ret' = [op |-> "get_tuple", config |-> config,
               res |-> get_tuple(table, order, config)]
    /\ UNCHANGED << table, putlog, wlog, calls >>

ScopeList ==
  /\ Ready
  /\ \E config \in ScopeConfigs, order \in ScanOrders(table) :
    /\ ret' = [op |-> "list", config |-> config, before |-> PyNone, limit |-> PyNone,
               res |-> list(table, order, config, PyNone, PyNone)]
    /\ UNCHANGED << table, putlog, wlog, calls >>

NextScope == ScopePut \/ ScopePutWrites \/ GetLatest \/ ScopeList \/ Return

SpecScope == Init /\ [][NextScope]_vars

(***************************************************************************)
(* SpecPages: checkpoints are saved and a caller pages through the history *)
(* with list, limit n and the last tuple of a page as the next before      *)
(***************************************************************************)

RECURSIVE list_pages(_, _, _, _, _, _)
\* The pages of list(config, before=before, limit=n) and of the calls that
\* follow it, concatenated, up to the first page that is empty or raises;
\* left bounds the number of calls by the size of the table.
list_pages(tbl, order, config, before, n, left) ==
  LET page == list(tbl, order, config, before, PyInt(n))
  IN  IF page.exc # "none" THEN [exc |-> page.exc, yielded |-> << >>]
      ELSE IF Len(page.yielded) = 0 \/ left = 0 THEN [exc |-> "none", yielded |-> << >>]
      ELSE LET rest == list_pages(tbl, order, config,
                                  PyDict(page.yielded[Len(page.yielded)].v.config),
                                  n, left - 1)
           IN  [exc |-> rest.exc, yielded |-> page.yielded \o rest.yielded]

ListPages ==
  /\ Ready
  /\ \E config \in Configs, n \in 1..MaxLimit, order \in ScanOrders(table) :
    /\ config.checkpoint_id = PyNone
    /\ ret' = [op |-> "pages", config |-> config, limit |-> n,
               res |-> list_pages(table, order, config, PyNone, n,
                                  Cardinality(DOMAIN table)),
               whole |-> list(table, order, config, PyNone, PyNone)]
    /\ UNCHANGED << table, putlog, wlog, calls >>

NextPages == Put \/ ListPages \/ Return

SpecPages == Init /\ [][NextPages]_vars

(***************************************************************************)
(* SpecCalls: one caller saves checkpoints and writes of thread "t"; a     *)
(* put_writes is a loop of put_item calls, any of which may raise, and the *)
(* caller may run the call again                                           *)
(***************************************************************************)

CallConfigs == [thread_id : ThreadIds, checkpoint_ns : {<< >>}, checkpoint_id : {PyNone}]
CallWriteConfig ==
  [thread_id |-> << "t" >>, checkpoint_ns |-> << >>, checkpoint_id |-> PyStr(<< "a" >>)]
CallTaskId == << "k" >>

InitCalls ==
  /\ table = Empty
  /\ putlog = Empty
  /\ wlog = Empty
  /\ calls = [pc |-> "idle"]
  /\ ret = [op |-> "none"]

\* put, whole; ret keeps the table the call found.
PutCall ==
  /\ calls.pc = "idle"
  /\ \E config \in CallConfigs, id \in RaceIds, s \in SaveValues :
    LET checkpoint == [id |-> id, v |-> s]
        metadata == [step |-> s]
    IN  /\ table' = put(table, config, checkpoint, metadata)
        /\ ret' = [op |-> "put", config |-> config, checkpoint |-> checkpoint,
                   metadata |-> metadata, val |-> put_return(config, checkpoint),
                   before |-> table,
                   again |-> /\ ret.op = "put"
                             /\ ret.config = config
                             /\ ret.checkpoint = checkpoint
                             /\ ret.metadata = metadata]
        /\ UNCHANGED << putlog, wlog, calls >>

\* put_writes up to its loop.  start is the table the first of a run of calls
\* with the same arguments found, begin the table this call found.
WritesBegin ==
  /\ calls.pc = "idle"
  /\ \E writes \in WriteLists :
    LET retry == /\ ret.op = "put_writes"
                 /\ ret.writes = writes
    IN  /\ Cardinality(WritePKs(table)
                       \cup {put_writes_data(CallWriteConfig, writes, CallTaskId, i - 1).PK :
                               i \in 1..Len(writes)}) <= MaxWriteItems
        /\ calls' = [pc |-> "loop", config |-> CallWriteConfig, writes |-> writes,
                     task_id |-> CallTaskId, idx |-> 0, puts |-> << >>,
                     retry |-> retry,
                     start |-> IF retry THEN ret.start ELSE table,
                     begin |-> table]
        /\ ret' = [op |-> "none"]
        /\ UNCHANGED << table, putlog, wlog >>

\* One turn of the loop: the item of the entry at idx is built and put.
WritesPut ==
  /\ calls.pc = "loop"
  /\ calls.idx < Len(calls.writes)
  /\ LET data == put_writes_data(calls.config, calls.writes, calls.task_id, calls.idx)
     IN  /\ table' = put_item(table, data)
         /\ calls' = [calls EXCEPT !.idx = calls.idx + 1,
                                   !.puts = Append(calls.puts, data)]
  /\ UNCHANGED << putlog, wlog, ret >>

\* put_item raises in the turn of the entry at idx; the exception leaves
\* put_writes.
WritesRaise ==
  /\ calls.pc = "loop"
  /\ calls.idx < Len(calls.writes)
  /\ table' = put_writes_raise(table, calls.begin)
  /\ ret' = [op |-> "put_writes", exc |-> "ClientError", config |-> calls.config,
             writes |-> calls.writes, task_id |-> calls.task_id,
             failed_at |-> calls.idx, puts |-> calls.puts, retry |-> calls.retry,
             start |-> calls.start, begin |-> calls.begin]
  /\ calls' = [pc |-> "idle"]
  /\ UNCHANGED << putlog, wlog >>

\* The loop is over: put_writes returns None.
WritesEnd ==
  /\ calls.pc = "loop"
  /\ calls.idx = Len(calls.writes)
  /\ ret' = [op |-> "put_writes", exc |-> "none", config |-> calls.config,
             writes |-> calls.writes, task_id |-> calls.task_id,
             failed_at |-> calls.idx, puts |-> calls.puts, retry |-> calls.retry,
             start |-> calls.start, begin |-> calls.begin]
  /\ calls' = [pc |-> "idle"]
  /\ UNCHANGED << table, putlog, wlog >>

NextCalls == PutCall \/ WritesBegin \/ WritesPut \/ WritesRaise \/ WritesEnd

SpecCalls == InitCalls /\ [][NextCalls]_vars

(***************************************************************************)
(* Claims about saved checkpoints (Spec)                                   *)
(***************************************************************************)

\* The key of the checkpoint record of an identity.
ExpectedCheckpointKey(k) ==
  << "c", "h", "e", "c", "k", "p", "o", "i", "n", "t", "$" >>
  \o k[1] \o << "$" >> \o k[2] \o << "$" >> \o k[3]

\* The identities saved under a thread and namespace.
SavedIn(thread_id, checkpoint_ns) ==
  {k \in DOMAIN putlog : k[1] = thread_id /\ k[2] = checkpoint_ns}

\* The saved identity with the greatest id under a thread and namespace.
LatestIn(thread_id, checkpoint_ns) ==
  CHOOSE k \in SavedIn(thread_id, checkpoint_ns) :
    \A j \in SavedIn(thread_id, checkpoint_ns) : ~StrLess(k[3], j[3])

IsTuple(res) == res.exc = "none" /\ res.val.ty = "CheckpointTuple"

\* get_tuple was the last call, with an explicit id of a saved checkpoint.
GotSaved ==
  /\ ret.op = "get_tuple"
  /\ ret.config.checkpoint_id # PyNone
  /\ << ret.config.thread_id, ret.config.checkpoint_ns, ret.config.checkpoint_id.v >>
       \in DOMAIN putlog

GotIdent ==
  << ret.config.thread_id, ret.config.checkpoint_ns, ret.config.checkpoint_id.v >>

\* C1: once a checkpoint is saved under a thread and namespace, get_tuple
\* with no checkpoint_id returns the tuple of the saved checkpoint with the
\* greatest id there.
C1_GetLatest ==
  (/\ ret.op = "get_tuple"
   /\ ret.config.checkpoint_id = PyNone
   /\ SavedIn(ret.config.thread_id, ret.config.checkpoint_ns) # {})
  => LET k == LatestIn(ret.config.thread_id, ret.config.checkpoint_ns)
     IN  /\ IsTuple(ret.res)
         /\ ret.res.val.v.config.checkpoint_id = PyStr(k[3])
         /\ ret.res.val.v.checkpoint = putlog[k].checkpoint

\* C2: get_tuple with the id of a saved checkpoint returns a tuple with that
\* identity as config and the checkpoint and metadata of the last put to it,
\* every time it is called.
C2_GetExplicit ==
  GotSaved
  => /\ IsTuple(ret.res)
     /\ ret.res.val.v.config = [thread_id |-> GotIdent[1],
                                checkpoint_ns |-> GotIdent[2],
                                checkpoint_id |-> PyStr(GotIdent[3])]
     /\ ret.res.val.v.checkpoint = putlog[GotIdent].checkpoint
     /\ ret.res.val.v.metadata = putlog[GotIdent].metadata

\* C2's case: with the table full, a saved checkpoint is read back by its id.
C2_Witness ==
  /\ GotSaved
  /\ IsTuple(ret.res)
  /\ ret.res.val.v.checkpoint.v = 2
  /\ Cardinality(DOMAIN putlog) = MaxCheckpoints

\* C4: list with no before and no limit yields one tuple for every checkpoint
\* saved under the thread and namespace, in strictly decreasing id order.
C4_ListAll ==
  (/\ ret.op = "list"
   /\ ret.before = PyNone
   /\ ret.limit = PyNone)
  => LET saved == SavedIn(ret.config.thread_id, ret.config.checkpoint_ns)
         out == ret.res.yielded
     IN  /\ ret.res.exc = "none"
         /\ Len(out) = Cardinality(saved)
         /\ \A k \in saved : \E i \in 1..Len(out) :
              out[i].v.config.checkpoint_id = PyStr(k[3])
         /\ \A i \in 1..(Len(out) - 1) :
              StrLess(out[i + 1].v.config.checkpoint_id.v,
                      out[i].v.config.checkpoint_id.v)

\* C7: a checkpoint saved with a config without checkpoint_id is read back
\* with no parent_config; saved with checkpoint_id p, it is read back with the
\* parent_config (thread_id, checkpoint_ns, p), stored or not; and put returns
\* the identity of the checkpoint it saved, which a next put takes as parent.
C7_Parent ==
  /\ GotSaved
     => /\ IsTuple(ret.res)
        /\ ret.res.val.v.parent_config =
             IF putlog[GotIdent].config.checkpoint_id = PyNone THEN PyNone
             ELSE PyDict([thread_id |-> GotIdent[1],
                          checkpoint_ns |-> GotIdent[2],
                          checkpoint_id |-> putlog[GotIdent].config.checkpoint_id])
  /\ ret.op = "put"
     => ret.val = [thread_id |-> ret.config.thread_id,
                   checkpoint_ns |-> ret.config.checkpoint_ns,
                   checkpoint_id |-> PyStr(ret.checkpoint.id)]

\* C7's case: the parent read back names a checkpoint that is not stored.
C7_Witness ==
  /\ GotSaved
  /\ IsTuple(ret.res)
  /\ ret.res.val.v.parent_config.ty = "dict"
  /\ << GotIdent[1], GotIdent[2], ret.res.val.v.parent_config.v.checkpoint_id.v >>
       \notin DOMAIN putlog

\* The saved identities of a thread and namespace whose record has its
\* checkpoint and metadata, and those whose record lacks one.
CompleteIn(thread_id, checkpoint_ns) ==
  {k \in SavedIn(thread_id, checkpoint_ns) :
     LET pk == ExpectedCheckpointKey(k)
     IN  {"checkpoint", "metadata"} \subseteq DOMAIN table[pk]}

IncompleteIn(thread_id, checkpoint_ns) ==
  SavedIn(thread_id, checkpoint_ns) \ CompleteIn(thread_id, checkpoint_ns)

\* C17: list over a thread and namespace with a record that lacks its
\* checkpoint or metadata raises nothing, leaves that record out and yields
\* every other checkpoint, newest first.
C17_SkipIncomplete ==
  (/\ ret.op = "list"
   /\ ret.before = PyNone
   /\ ret.limit = PyNone
   /\ IncompleteIn(ret.config.thread_id, ret.config.checkpoint_ns) # {})
  => LET complete == CompleteIn(ret.config.thread_id, ret.config.checkpoint_ns)
         out == ret.res.yielded
     IN  /\ ret.res.exc = "none"
         /\ Len(out) = Cardinality(complete)
         /\ \A k \in complete : \E i \in 1..Len(out) :
              out[i].v.config.checkpoint_id = PyStr(k[3])
         /\ \A i \in 1..(Len(out) - 1) :
              StrLess(out[i + 1].v.config.checkpoint_id.v,
                      out[i].v.config.checkpoint_id.v)

\* C20: the pages of list with a limit n >= 1, each asked for with the last
\* tuple of the page before it as before, up to the first empty page, are
\* together what one list without before and limit yields: every saved
\* checkpoint of the thread and namespace once, newest first.
C20_Pagination ==
  ret.op = "pages"
  => LET saved == SavedIn(ret.config.thread_id, ret.config.checkpoint_ns)
         out == ret.res.yielded
     IN  /\ ret.res.exc = "none"
         /\ ret.whole.exc = "none"
         /\ out = ret.whole.yielded
         /\ Len(out) = Cardinality(saved)
         /\ \A k \in saved : \E i \in 1..Len(out) :
              out[i].v.config.checkpoint_id = PyStr(k[3])
         /\ \A i \in 1..(Len(out) - 1) :
              StrLess(out[i + 1].v.config.checkpoint_id.v,
                      out[i].v.config.checkpoint_id.v)

(***************************************************************************)
(* Claims about saved writes (SpecWrites)                                  *)
(***************************************************************************)

Range(f) == {f[i] : i \in DOMAIN f}

\* The saved writes of the checkpoint of a tuple whose channel has no fixed
\* index.
PositionalWritesOf(tuple) ==
  {k \in DOMAIN wlog :
     /\ k[1] = tuple.config.thread_id
     /\ k[2] = tuple.config.checkpoint_ns
     /\ k[3] = tuple.config.checkpoint_id.v
     /\ wlog[k][1] \notin DOMAIN WRITES_IDX_MAP}

\* C3: the pending_writes of a tuple hold every write saved for its
\* checkpoint on a channel without fixed index, as (task_id, channel, value),
\* those of one task in index order.
C3_WritesLoaded ==
  (ret.op = "get_tuple" /\ IsTuple(ret.res))
  => LET tuple == ret.res.val.v
         out == tuple.pending_writes
         Entry(k) == << k[4], wlog[k][1], wlog[k][2] >>
     IN  /\ \A k \in PositionalWritesOf(tuple) : Entry(k) \in Range(out)
         /\ \A k1, k2 \in PositionalWritesOf(tuple) :
              (k1[4] = k2[4] /\ k1[5] < k2[5])
              => \E i, j \in 1..Len(out) :
                   i < j /\ out[i] = Entry(k1) /\ out[j] = Entry(k2)

\* The saved writes of an identity.
WritesOf(thread_id, checkpoint_ns, checkpoint_id) ==
  {k \in DOMAIN wlog :
     k[1] = thread_id /\ k[2] = checkpoint_ns /\ k[3] = checkpoint_id}

\* C12: get_tuple with the id of a checkpoint that is not stored returns
\* None and raises nothing, with writes saved under that identity or
\* without; list for a thread and namespace without checkpoints yields
\* nothing and raises nothing.
C12_NotFound ==
  /\ (/\ ret.op = "get_tuple"
      /\ ret.config.checkpoint_id # PyNone
      /\ GotIdent \notin DOMAIN putlog)
     => ret.res = [exc |-> "none", val |-> PyNone]
  /\ (/\ ret.op = "list"
      /\ SavedIn(ret.config.thread_id, ret.config.checkpoint_ns) = {})
     => ret.res = [exc |-> "none", yielded |-> << >>]

\* C12's case: the checkpoint is not stored and the loader finds a write
\* saved under its identity.
C12_Witness ==
  /\ ret.op = "get_tuple"
  /\ ret.config.checkpoint_id # PyNone
  /\ GotIdent \notin DOMAIN putlog
  /\ \E k \in WritesOf(GotIdent[1], GotIdent[2], GotIdent[3]) : k[4] = << "*" >>
  /\ _load_pending_writes(table, SetToSeq(DOMAIN table), GotIdent[1], GotIdent[2],
                          GotIdent[3]).val # << >>
  /\ ret.res.val = PyNone

\* The idx under which a write of SpecSort was saved.
SavedIdx(w) ==
  CHOOSE i \in {k[5] : k \in WritesOf(ret.config.thread_id, ret.config.checkpoint_ns,
                                      ret.config.checkpoint_id.v)} :
    \E k \in DOMAIN wlog : k[4] = w[1] /\ k[5] = i /\ wlog[k] = << w[2], w[3] >>

\* C15: the loader returns the saved writes of the checkpoint in ascending
\* order of idx as an integer: idx 2 before idx 10, the negative fixed
\* indices before the positions.
C15_SortedByIdx ==
  ret.op = "load_pending_writes"
  => /\ ret.res.exc = "none"
     /\ Len(ret.res.val) = Cardinality(WritesOf(ret.config.thread_id,
                                                ret.config.checkpoint_ns,
                                                ret.config.checkpoint_id.v))
     /\ \A i, j \in 1..Len(ret.res.val) :
          i < j => SavedIdx(ret.res.val[i]) < SavedIdx(ret.res.val[j])

\* C16: when a get of the loader finds no item under a key its scan
\* returned, the load ends with an error; a load that returns, returns one
\* write for every key of its scan.
C16_MissingItemFails ==
  ret.op = "load_pending_writes"
  => /\ ret.missed => ret.res.exc = "KeyError"
     /\ ret.res.exc = "none"
        => /\ Len(ret.res.val) = Len(ret.scanned)
           /\ \A i \in 1..Len(ret.scanned) :
                \E j \in 1..Len(ret.res.val) :
                  /\ ret.res.val[j][1] = ret.scanned[i][2].task_id
                  /\ ret.res.val[j][2] = ret.scanned[i][1].channel

\* C16's case: of two scanned keys the first is fetched, the second was
\* deleted after the scan.
C16_Witness ==
  /\ ret.op = "load_pending_writes"
  /\ Len(ret.scanned) = 2
  /\ ret.missed
  /\ ret.at = 2
  /\ ret.res.exc = "KeyError"
  /\ ret.scanned[1][1].PK \in DOMAIN table
  /\ ret.scanned[2][1].PK \notin DOMAIN table

(***************************************************************************)
(* Claims about the history filter (SpecFilter)                            *)
(***************************************************************************)

\* The id the key at a position of the output was made from.
FilteredId(out, i) ==
  ret.ids[CHOOSE j \in 1..Len(ret.ids) : ret.keys[j] = out[i]]

\* The ids of the input that are below the before bound (all of them when
\* there is none).
IdsBelowBound ==
  {ret.ids[j] : j \in {i \in 1..Len(ret.ids) :
                         ret.before = PyNone \/ StrLess(ret.ids[i], ret.before.v)}}

\* C5: with a before bound B, every id of the output of _filter_keys is
\* strictly below B, so the key of B itself is left out, and without a limit
\* every key with an id below B is in the output.
C5_BeforeBound ==
  (ret.op = "filter_keys" /\ ret.before # PyNone)
  => /\ ret.res.exc = "none"
     /\ \A i \in 1..Len(ret.res.val) : ret.res.val[i] \in Range(ret.keys)
     /\ \A i \in 1..Len(ret.res.val) :
          StrLess(FilteredId(ret.res.val, i), ret.before.v)
     /\ ret.limit = PyNone
        => \A j \in 1..Len(ret.ids) :
             StrLess(ret.ids[j], ret.before.v) => ret.keys[j] \in Range(ret.res.val)

\* C5's case: the bound is the id of one of the keys, a key below it is kept
\* and a key above it is dropped.
C5_Witness ==
  /\ ret.op = "filter_keys"
  /\ ret.before = PyStr(<< "a", "b" >>)
  /\ ret.limit = PyNone
  /\ \E j \in 1..Len(ret.ids) : ret.ids[j] = << "a", "b" >>
  /\ \E j \in 1..Len(ret.ids) : ret.ids[j] = << "b" >>
  /\ Len(ret.res.val) = 1
  /\ FilteredId(ret.res.val, 1) = << "a" >>

\* C6: with a limit (0 included) the output of _filter_keys has at most limit
\* entries: the first limit entries of the newest-first order of the keys
\* below the before bound.
C6_Limit ==
  (ret.op = "filter_keys" /\ ret.limit # PyNone)
  => /\ ret.res.exc = "none"
     /\ Len(ret.res.val) <= ret.limit.v
     /\ Len(ret.res.val) = Min2(ret.limit.v, Cardinality(IdsBelowBound))
     /\ \A i \in 1..Len(ret.res.val) :
          /\ FilteredId(ret.res.val, i) \in IdsBelowBound
          /\ Cardinality({c \in IdsBelowBound :
                            StrLess(FilteredId(ret.res.val, i), c)}) = i - 1

(***************************************************************************)
(* Claims about the key codec (SpecCodec)                                  *)
(***************************************************************************)

SeparatorFree(s) == \A i \in 1..Len(s) : s[i] # DYNAMODB_KEY_SEPARATOR[1]

\* C8: parsing the checkpoint key made from separator-free fields gives the
\* fields back, and no other separator-free triple makes the same key.
C8_CheckpointKeyRoundTrip ==
  /\ (/\ ret.op = "checkpoint_key_parsed"
      /\ \A i \in 1..3 : SeparatorFree(ret.ident[i]))
     => /\ ret.parsed.exc = "none"
        /\ ret.parsed.thread_id = ret.ident[1]
        /\ ret.parsed.checkpoint_ns = ret.ident[2]
        /\ ret.parsed.checkpoint_id = ret.ident[3]
  /\ (/\ ret.op = "checkpoint_key"
      /\ \A i \in 1..3 : SeparatorFree(ret.ident[i]))
     => \A t \in FieldStrings, n \in FieldStrings, c \in FieldStrings :
          (/\ SeparatorFree(t) /\ SeparatorFree(n) /\ SeparatorFree(c)
           /\ _make_dynamodb_checkpoint_key(t, n, c) = ret.key)
          => << t, n, c >> = ret.ident

\* C8's case: a key with an empty namespace between two non-empty fields is
\* parsed.
C8_Witness ==
  /\ ret.op = "checkpoint_key_parsed"
  /\ ret.ident = << << "a" >>, << >>, << "a" >> >>
  /\ ret.parsed.exc = "none"

\* C9: parsing the writes key made from separator-free fields and an integer
\* idx gives every field back, the idx as the integer it was.
C9_WritesKeyRoundTrip ==
  (/\ ret.op = "writes_key_parsed"
   /\ \A i \in 1..4 : SeparatorFree(ret.ident[i]))
  => /\ ret.parsed.exc = "none"
     /\ ret.parsed.thread_id = ret.ident[1]
     /\ ret.parsed.checkpoint_ns = ret.ident[2]
     /\ ret.parsed.checkpoint_id = ret.ident[3]
     /\ ret.parsed.task_id = ret.ident[4]
     /\ PyEq(ret.parsed.idx, ret.ident[5])

(***************************************************************************)
(* Claims about concurrent puts (SpecRace)                                 *)
(***************************************************************************)

\* The record a put with the logged arguments stores.
RecordOf(k) ==
  [PK |-> << "c", "h", "e", "c", "k", "p", "o", "i", "n", "t", "$" >>
          \o k[1] \o << "$" >> \o k[2] \o << "$" >> \o k[3],
   checkpoint |-> [packed |-> putlog[k].checkpoint],
   type |-> "msgpack",
   metadata |-> [json |-> putlog[k].metadata],
   parent_checkpoint_id |->
     IF putlog[k].config.checkpoint_id = PyNone THEN << >>
     ELSE putlog[k].config.checkpoint_id.v]

\* C10: whatever the interleaving of the puts, the record stored for an
\* identity is, field for field, the record of the put that reached the table
\* last, each put returns the identity it saved, and nothing else is stored.
C10_LastPutWins ==
  /\ \A k \in DOMAIN putlog :
       /\ RecordOf(k).PK \in DOMAIN table
       /\ table[RecordOf(k).PK] = RecordOf(k)
  /\ Cardinality(DOMAIN table) = Cardinality(DOMAIN putlog)
  /\ \A p \in DOMAIN calls :
       calls[p].pc = "done"
       => calls[p].val = [thread_id |-> calls[p].config.thread_id,
                          checkpoint_ns |-> calls[p].config.checkpoint_ns,
                          checkpoint_id |-> PyStr(calls[p].checkpoint.id)]

\* C10's case: two puts to one identity with different payload, metadata and
\* parent overlapped, and both are done.
C10_Witness ==
  /\ DOMAIN calls = Callers
  /\ \E p, q \in Callers :
       /\ p # q
       /\ calls[p].pc = "done" /\ calls[q].pc = "done"
       /\ calls[p].raced /\ ~calls[q].raced
       /\ calls[p].checkpoint.id = calls[q].checkpoint.id
       /\ calls[p].checkpoint.v # calls[q].checkpoint.v
       /\ calls[p].config.checkpoint_id # PyNone
       /\ calls[q].config.checkpoint_id = PyNone
       /\ putlog[<< calls[q].config.thread_id, calls[q].config.checkpoint_ns,
                    calls[q].checkpoint.id >>].checkpoint = calls[q].checkpoint

(***************************************************************************)
(* Claims about the calls of one caller (SpecCalls)                        *)
(***************************************************************************)

\* The idx of the entry at position pos (from 0) on a channel.
FixedIdx(channel, pos) ==
  CASE channel = "__error__" -> -1
    [] channel = "__scheduled__" -> -2
    [] channel = "__interrupt__" -> -3
    [] channel = "__resume__" -> -4
    [] OTHER -> pos

\* The record of the i-th entry (from 1) of the put_writes call c.
ExpectedWrite(c, i) ==
  [PK |-> << "w", "r", "i", "t", "e", "s", "$" >> \o c.config.thread_id \o << "$" >>
          \o c.config.checkpoint_ns \o << "$" >> \o c.config.checkpoint_id.v
          \o << "$" >> \o c.task_id \o << "$" >>
          \o IntToStr(FixedIdx(c.writes[i][1], i - 1)),
   channel |-> c.writes[i][1],
   type |-> "msgpack",
   value |-> [packed |-> c.writes[i][2]]]

\* The table after the first n entries of the call c are put, in input
\* order, into the table from.
AfterEntries(from, c, n) ==
  LET keys == {ExpectedWrite(c, i).PK : i \in 1..n}
      Last(pk) == CHOOSE i \in 1..n :
                    /\ ExpectedWrite(c, i).PK = pk
                    /\ \A j \in (i + 1)..n : ExpectedWrite(c, j).PK # pk
  IN  [pk \in DOMAIN from \cup keys |->
         IF pk \in keys THEN ExpectedWrite(c, Last(pk)) ELSE from[pk]]

\* C11: when the k-th put of put_writes fails the call ends with the error,
\* the first k-1 entries are stored under their keys, no later entry is put
\* and everything else in the table is as the call found it.
C11_PartialWrites ==
  (ret.op = "put_writes" /\ ret.exc # "none")
  => /\ ret.exc = "ClientError"
     /\ ret.failed_at < Len(ret.writes)
     /\ table = AfterEntries(ret.begin, ret, ret.failed_at)
     /\ \A i \in 1..ret.failed_at : ExpectedWrite(ret, i).PK \in DOMAIN table
     /\ \A i \in (ret.failed_at + 1)..Len(ret.writes) :
          LET pk == ExpectedWrite(ret, i).PK
          IN  (pk \notin {ExpectedWrite(ret, j).PK : j \in 1..ret.failed_at})
              => /\ pk \in DOMAIN table => pk \in DOMAIN ret.begin
                 /\ pk \in DOMAIN ret.begin => table[pk] = ret.begin[pk]

\* C11's case: the second put of a call fails after the first stored a new
\* item, and the entry that was not put has no item.
C11_Witness ==
  /\ ret.op = "put_writes"
  /\ ret.exc = "ClientError"
  /\ ret.failed_at = 1
  /\ ExpectedWrite(ret, 1).PK \notin DOMAIN ret.begin
  /\ ExpectedWrite(ret, 1).PK \in DOMAIN table
  /\ ExpectedWrite(ret, 2).PK \notin DOMAIN table

\* C13: a put with the arguments of the put before it leaves the table as
\* that put left it; a put_writes run again with the same arguments, after
\* it succeeded or failed partway, leaves the table as one successful run
\* from the table the first attempt found.
C13_Idempotent ==
  /\ (ret.op = "put" /\ ret.again) => table = ret.before
  /\ (ret.op = "put_writes" /\ ret.exc = "none" /\ ret.retry)
     => table = AfterEntries(ret.start, ret, Len(ret.writes))

\* C13's case: a put_writes that failed at its second put is run again to its
\* end.
C13_Witness ==
  /\ ret.op = "put_writes"
  /\ ret.exc = "none"
  /\ ret.retry
  /\ Len(ret.writes) = 2
  /\ ret.begin # ret.start
  /\ ret.begin # table

\* C13's case for put: the same put twice over a stored checkpoint.
C13_WitnessPut ==
  /\ ret.op = "put"
  /\ ret.again
  /\ Cardinality(CheckpointPKs(table)) = 2

\* C14: put_writes makes one put per entry, in input order; the item of an
\* entry has the write key of (thread_id, checkpoint_ns, checkpoint_id,
\* task_id, idx), idx the fixed index of the channel or else the position,
\* and the channel and value of the entry; the items are stored.
C14_WritesStored ==
  (ret.op = "put_writes" /\ ret.exc = "none")
  => /\ Len(ret.puts) = Len(ret.writes)
     /\ \A i \in 1..Len(ret.writes) :
          /\ ret.puts[i] = ExpectedWrite(ret, i)
          /\ ret.puts[i].PK \in DOMAIN table
          /\ (\A j \in (i + 1)..Len(ret.writes) : ret.puts[j].PK # ret.puts[i].PK)
             => table[ret.puts[i].PK] = ExpectedWrite(ret, i)

\* C14's case: an entry on a channel with a fixed index follows a positional
\* one.
C14_Witness ==
  /\ ret.op = "put_writes"
  /\ ret.exc = "none"
  /\ Len(ret.writes) = 2
  /\ ret.writes[1][1] = "chan2"
  /\ ret.writes[2][1] = "__error__"
  /\ ret.puts[2].PK = << "w", "r", "i", "t", "e", "s", "$", "t", "$", "$", "a",
                         "$", "k", "$", "-", "1" >>

\* The record of the checkpoint of the put call c.
ExpectedCheckpoint(c) ==
  [PK |-> << "c", "h", "e", "c", "k", "p", "o", "i", "n", "t", "$" >>
          \o c.config.thread_id \o << "$" >> \o c.config.checkpoint_ns
          \o << "$" >> \o c.checkpoint.id,
   checkpoint |-> [packed |-> c.checkpoint],
   type |-> "msgpack",
   metadata |-> [json |-> c.metadata],
   parent_checkpoint_id |->
     IF c.config.checkpoint_id = PyNone THEN << >> ELSE c.config.checkpoint_id.v]

\* C18: put stores the record of its checkpoint at the key of (thread_id,
\* checkpoint_ns, id of the checkpoint), whatever was there, returns that
\* identity, and every other item of the table is as it was.
C18_PutFrame ==
  ret.op = "put"
  => /\ DOMAIN table = DOMAIN ret.before \cup {ExpectedCheckpoint(ret).PK}
     /\ table[ExpectedCheckpoint(ret).PK] = ExpectedCheckpoint(ret)
     /\ \A pk \in DOMAIN ret.before :
          pk # ExpectedCheckpoint(ret).PK => table[pk] = ret.before[pk]
     /\ ret.val = [thread_id |-> ret.config.thread_id,
                   checkpoint_ns |-> ret.config.checkpoint_ns,
                   checkpoint_id |-> PyStr(ret.checkpoint.id)]

\* C18's case: the put replaces a stored checkpoint by a different one, with
\* another checkpoint and a write in the table.
C18_Witness ==
  /\ ret.op = "put"
  /\ ExpectedCheckpoint(ret).PK \in DOMAIN ret.before
  /\ ret.before[ExpectedCheckpoint(ret).PK] # table[ExpectedCheckpoint(ret).PK]
  /\ Cardinality(CheckpointPKs(table)) = 2
  /\ WritePKs(table) # {}

(***************************************************************************)
(* Claims about the scope of reads (SpecScope)                             *)
(***************************************************************************)

\* The tuple is of a checkpoint saved under (thread_id, checkpoint_ns) and
\* its pending_writes were saved under the identity of the checkpoint.
InScope(tuple, thread_id, checkpoint_ns) ==
  /\ tuple.config.thread_id = thread_id
  /\ tuple.config.checkpoint_ns = checkpoint_ns
  /\ tuple.checkpoint.v = << thread_id, checkpoint_ns >>
  /\ \A i \in 1..Len(tuple.pending_writes) :
       tuple.pending_writes[i][3]
         = << thread_id, checkpoint_ns, tuple.config.checkpoint_id.v >>

\* C19: the tuple get_tuple returns for a config without checkpoint_id, and
\* every tuple list yields, is of a checkpoint saved under the thread_id and
\* checkpoint_ns of the config, and its pending_writes were saved under the
\* identity of that checkpoint.
C19_Scoped ==
  /\ (ret.op = "get_tuple" /\ ret.res.val.ty = "CheckpointTuple")
     => InScope(ret.res.val.v, ret.config.thread_id, ret.config.checkpoint_ns)
  /\ ret.op = "list"
     => \A i \in 1..Len(ret.res.yielded) :
          InScope(ret.res.yielded[i].v, ret.config.thread_id, ret.config.checkpoint_ns)

\* C19's case: the latest checkpoint of thread "t" is returned with its
\* write while a checkpoint and a write of thread "tt" are stored.
C19_Witness ==
  /\ ret.op = "get_tuple"
  /\ ret.config.thread_id = << "t" >>
  /\ ret.res.val.ty = "CheckpointTuple"
  /\ Len(ret.res.val.v.pending_writes) = 1
  /\ \E pk \in CheckpointPKs(table) :
       table[pk].checkpoint.packed.v[1] = << "t", "t" >>
  /\ \E pk \in WritePKs(table) : table[pk].value.packed[1] = << "t", "t" >>

====
